---- MODULE Spec2Model ----
(***************************************************************************)
(* Model of the document-processing pipeline of the repository:            *)
(*   app/services/document_service.py  (DocumentService)                   *)
(*   app/api/v1/endpoints/documents.py (upload / reprocess handlers)       *)
(*   app/services/vector_service.py    (VectorService)                     *)
(*   app/processors/llm_processor.py   (LLMProcessor)                      *)
(*   app/services/cache_service.py     (CacheService)                      *)
(*                                                                         *)
(* Specifications.  Spec: uploads, reprocess requests and runs of all      *)
(* documents.  SpecApi: the same for one document, with the cache, GET     *)
(* results and DELETE.  SpecSplit, SpecSplitFair: one call of _split_text  *)
(* on every short text.  SpecSearch: one call of search_similar_documents  *)
(* on every short list of hits.  SpecCache: one document and one run, with *)
(* GET status, GET results and outages of Redis.  SpecRun, SpecRunFair:    *)
(* one upload and its run, with _split_text executed step by step.         *)
(* SpecRank, SpecCorpus: the search on scored hits and on a collection of  *)
(* chunks.  SpecPreview: the preview of one chunk text.  SpecStore: inserts*)
(* and deletions in the collection.  SpecClear: cache writes and clears.   *)
(* SpecIsolation: runs, reprocess requests, deletions and cache writes of  *)
(* two documents.                                                          *)
(*                                                                         *)
(* Concurrency model.  Every request and every background run owns its own *)
(* SQLAlchemy session (SessionLocal, autocommit=False, autoflush=False,    *)
(* expire_on_commit left at its default True) on a shared database, and    *)
(* the API may be served by several workers (settings.api_workers).  The   *)
(* atomic steps of the model are therefore the single interactions with    *)
(* the shared stores: one SELECT, one commit, one collaborator call.       *)
(*                                                                         *)
(* Session model.  A session keeps the row as it last loaded it (snap).    *)
(* commit() flushes an UPDATE that carries exactly the attributes whose    *)
(* assigned value differs from the loaded one, and then expires the        *)
(* object, so that the next attribute access reloads the whole row.        *)
(***************************************************************************)
EXTENDS Integers, Sequences, FiniteSets, TLC

(* ---------------------------- bounds ----------------------------------- *)
\* number of background runs that may start in one behaviour
MaxRuns == 2
\* number of reprocess requests that may be made in one behaviour
MaxReprocess == 2

Docs == {"d1", "d2"}
Tasks == 1..MaxRuns
Requests == 1..MaxReprocess

(* ------------------------- nullable values ------------------------------ *)
\* a nullable column holds Null or Some(v)
Null == <<>>
Some(v) == <<v>>

(* ------------------------------ texts ----------------------------------- *)
\* The texts the Text Extractor may return, as abstract documents: their
\* stripped length, the indicator families their lower-cased content
\* contains, and the number of chunks _split_text cuts them into.
Texts == {"tiny", "deal"}

TextLen(text) == IF text = "tiny" THEN 4 ELSE 1500

Indicators(text) == IF text = "tiny" THEN {} ELSE {"contract", "invoice"}

NumChunks(text) == IF text = "tiny" THEN 1 ELSE 2

\* the chunk indexes i of the ids "{doc_id}_chunk_{i}" these texts give rise to
ChunkIndexes == {0, 1}

\* ocr_result dictionaries returned by OCRProcessor.extract_text
OcrResults ==
    { [text |-> "tiny", confidence |-> 100, pages_count |-> 1, language |-> "english"],
      [text |-> "deal", confidence |-> 60, pages_count |-> 3, language |-> "vietnamese"] }

\* LLMProcessor._detect_document_type: first matching indicator family
_detect_document_type(text) ==
    IF "resume" \in Indicators(text) THEN "resume"
    ELSE IF "contract" \in Indicators(text) THEN "contract"
    ELSE IF "invoice" \in Indicators(text) THEN "invoice"
    ELSE IF "report" \in Indicators(text) THEN "report"
    ELSE "general"

\* what the LLM endpoint does with one chat-completion request: it answers a
\* JSON object, JSON that is no object (update() then raises), text that is
\* no JSON, or the request raises
LlmOutcomes == {"json", "json_not_object", "unparsable", "error"}

\* LLMProcessor.analyze_document: the dictionary it returns, by its shape
analyze_document(text, outcome) ==
    IF TextLen(text) < 10 THEN "too_short_error"
    ELSE IF outcome = "json" THEN "structured"
    ELSE IF outcome = "unparsable" THEN "fallback_parsed"
    ELSE "analysis_failed_error"

\* what embedding + Milvus do with one create_document_embedding call
EmbedOutcomes == {"ok", "raise_before_insert", "raise_after_insert"}

\* str(e) of the exception a stage raised
ErrorMessage(stage) == IF stage = "extract" THEN "extract_error" ELSE "embed_error"

(* --------------------------- document row ------------------------------- *)
Fields == {"status", "document_type", "extracted_text", "ocr_confidence",
           "pages_count", "language_detected", "llm_analysis", "error_message",
           "retry_count", "processing_time_seconds"}

\* Document(...) as created by upload_document, with the column defaults
NewDocument(ty) ==
    [status |-> "uploaded", document_type |-> ty, extracted_text |-> Null,
     ocr_confidence |-> Null, pages_count |-> Null, language_detected |-> Null,
     llm_analysis |-> Null, error_message |-> Null, retry_count |-> 0,
     processing_time_seconds |-> Null]

\* the document types an upload may carry ("other" when none is given)
UploadTypes == {"other", "invoice"}

\* db.commit(): UPDATE of the attributes whose assigned value differs from
\* the value the session loaded; all other columns keep the stored value
Commit(row, loaded, assigned) ==
    [f \in Fields |->
        IF f \in DOMAIN assigned /\ assigned[f] # loaded[f] THEN assigned[f] ELSE row[f]]

\* number of GET /{doc_id}/results requests that may be in progress at once
MaxGets == 1

Gets == 1..MaxGets

\* the key prefixes of the cache, in the order clear_document_cache deletes them
CacheKeys == {"status", "results", "insights"}

KeyOrder == <<"status", "results", "insights">>

\* a clear that empties the cache of every document
flush_cache(c, d, k) == [e \in DOMAIN c |-> [key \in CacheKeys |-> Null]]

\* clear_document_cache(doc_id): the keys are deleted one after the other;
\* when Redis raises, or the client is None, only the first k are deleted
clear_document_cache(c, d, k) ==
    [c EXCEPT ![d] = [key \in CacheKeys |->
        IF \E i \in 1..k : KeyOrder[i] = key THEN Null ELSE c[d][key]]]

VARIABLES
    docs,     \* ids of the documents that exist
    db,       \* the documents table: one row per document
    store,    \* the Milvus collection: number of records per (document, chunk index)
    queue,    \* background tasks queued and not yet started, per document
    nReqs,    \* number of reprocess requests made so far
    rdoc,     \* document of each reprocess request
    rpc,      \* position of each reprocess request in its handler
    rsnap,    \* the row as loaded by the session of the request
    nRuns,    \* number of background runs started so far
    tdoc,     \* document of each run
    pc,       \* position of each run in its code
    snap,     \* the row as loaded by the task's session
    file,     \* what extract_text returns for the uploaded file of each document
    llm,      \* llm_analysis of the run
    failed,   \* stage whose exception the run is handling ("" if none)
    retry0,   \* history: retry_count stored when the run was started
    dup       \* history: documents for which a run was started while "processing"

\* the cache and the handlers that read it
VARIABLES
    cache,            \* Redis: per document and key prefix, Null or Some(cached value)
    gpc,              \* position of each GET /{doc_id}/results request in its handler
    gdoc,             \* document of each such request
    gsnap,            \* the row as loaded by the session of the request
    delete_response,  \* history: the last answer of DELETE /{doc_id}, per document
    redis_up          \* the Redis server can be reached

\* VectorService._split_text, one call of it
VARIABLES
    txt,             \* the argument text, a sequence of characters
    max_chunk_size,  \* the argument max_chunk_size
    spc,             \* position of the call in the code of _split_text
    sentences,       \* the sentences the for loop has still to visit
    chunks,          \* the local chunks
    current_chunk,   \* the local current_chunk
    words,           \* the local words
    temp_chunk       \* the local temp_chunk

\* VectorService.search_similar_documents, one call of it
VARIABLES
    limit,            \* the argument limit
    filter_metadata,  \* the argument filter_metadata: Null or Some(document type)
    hits,             \* the hits collection.search returned, best first
    hit_index,        \* number of hits the for loop has visited
    similar_docs,     \* the local similar_docs
    seen_documents,   \* the local seen_documents
    sch,              \* position of the call in the code of search_similar_documents
    corpus,           \* the document of every chunk of the collection, nearest to the
                      \* query first, where a specification fixes the collection
    text_chunk,       \* hit.entity.get("text_chunk") of a hit that is being listed
    text_preview      \* "text_preview" of its similar_doc: Null or Some(characters)

\* VectorService.delete_document_embeddings, which no handler or run calls
VARIABLES
    deleted           \* history, per document: the number of calls and what the
                      \* last one returned ("" before the first)

\* CacheService called on its own
VARIABLES
    processing_stats, \* Redis: the entry "processing_stats", Null or Some(value)
    cleared           \* history: the number of calls of clear_document_cache, the
                      \* document of the last one, the number of keys it deleted
                      \* and the number of entries that were there to remove

vars == <<docs, db, file, store, queue, nReqs, rdoc, rpc, rsnap, nRuns, tdoc, pc, snap,
          llm, failed, retry0, dup, cache, gpc, gdoc, gsnap, delete_response,
          redis_up, txt, max_chunk_size, spc, sentences, chunks, current_chunk, words, temp_chunk,
          limit, filter_metadata, hits, hit_index, similar_docs, seen_documents, sch,
          corpus, text_chunk, text_preview, deleted, processing_stats, cleared>>

\* the variables of the call of _split_text
splitVars == <<txt, max_chunk_size, spc, sentences, chunks, current_chunk, words, temp_chunk>>

\* the variables of the call of search_similar_documents
searchVars == <<limit, filter_metadata, hits, hit_index, similar_docs, seen_documents, sch,
                corpus, text_chunk, text_preview>>

\* the variables of the library functions, which no handler or run touches
pureVars == <<splitVars, searchVars, deleted, processing_stats, cleared>>

\* the variables of the pipeline: documents, requests and runs
pipelineVars == <<docs, db, file, store, queue, nReqs, rdoc, rpc, rsnap, nRuns, tdoc, pc,
                  snap, llm, failed, retry0, dup, cache, gpc, gdoc, gsnap, delete_response,
                  redis_up>>

\* the variables of the GET /{doc_id}/results requests
getVars == <<gpc, gdoc, gsnap>>

\* the variables of the cache and of the handlers that read it
apiVars == <<cache, getVars, delete_response, redis_up>>

\* the variables of the reprocess requests, and of the runs
reqVars == <<nReqs, rdoc, rpc, rsnap>>
runVars == <<nRuns, tdoc, pc, snap, llm, failed, retry0>>

\* no document, no request, no run
InitPipeline ==
    /\ docs = {}
    /\ db = [d \in Docs |-> NewDocument("other")]
    /\ file = [d \in Docs |-> CHOOSE r \in OcrResults : TRUE]
    /\ store = [d \in Docs |-> [i \in ChunkIndexes |-> 0]]
    /\ queue = [d \in Docs |-> 0]
    /\ nReqs = 0
    /\ rdoc = [r \in Requests |-> "d1"]
    /\ rpc = [r \in Requests |-> "unused"]
    /\ rsnap = [r \in Requests |-> NewDocument("other")]
    /\ nRuns = 0
    /\ tdoc = [t \in Tasks |-> "d1"]
    /\ pc = [t \in Tasks |-> "unused"]
    /\ snap = [t \in Tasks |-> NewDocument("other")]
    /\ llm = [t \in Tasks |-> ""]
    /\ failed = [t \in Tasks |-> ""]
    /\ retry0 = [t \in Tasks |-> 0]
    /\ dup = {}
    /\ cache = [d \in Docs |-> [key \in CacheKeys |-> Null]]
    /\ gpc = [g \in Gets |-> "idle"]
    /\ gdoc = [g \in Gets |-> "d1"]
    /\ gsnap = [g \in Gets |-> NewDocument("other")]
    /\ delete_response = [d \in Docs |-> ""]
    /\ redis_up = TRUE
    /\ deleted = [d \in Docs |-> [calls |-> 0, status |-> ""]]
    /\ processing_stats = Null
    /\ cleared = [calls |-> 0, doc |-> "d1", keys |-> 0, removed |-> 0]

\* no call of _split_text is under way
NoSplit ==
    /\ txt = <<>>
    /\ max_chunk_size = 1
    /\ spc = "idle"
    /\ sentences = <<>>
    /\ chunks = <<>>
    /\ current_chunk = <<>>
    /\ words = <<>>
    /\ temp_chunk = <<>>

\* no preview of a chunk is being built
NoPreview ==
    /\ text_chunk = <<>>
    /\ text_preview = Null

\* no call of search_similar_documents is under way
NoSearch ==
    /\ NoPreview
    /\ limit = 1
    /\ filter_metadata = Null
    /\ hits = <<>>
    /\ hit_index = 0
    /\ similar_docs = <<>>
    /\ seen_documents = {}
    /\ sch = "idle"
    /\ corpus = <<>>

Init == InitPipeline /\ NoSplit /\ NoSearch

(* ------------------------------ helpers --------------------------------- *)
\* positions of a run inside process_document, between the commit of
\* "processing" and the commit that ends the run
InProgress == {"started", "extracting", "classified", "analyzing",
               "embedding", "embedded", "failing"}

Running(d) == {t \in Tasks : tdoc[t] = d /\ pc[t] \in InProgress}

\* ocr_result of run t: the extraction of the document's file
ocr_result(t) == file[tdoc[t]]

\* an insert whose chunk ids do not carry the document id
collection_insert_shared(st, d, text) ==
    [e \in DOMAIN st |-> [i \in ChunkIndexes |-> IF i < NumChunks(text) THEN st[e][i] + 1 ELSE st[e][i]]]

\* collection.insert(embeddings_data): one record per chunk of the text,
\* with id "{doc_id}_chunk_{i}"; the collection appends, it does not replace
collection_insert(st, d, text) ==
    [st EXCEPT ![d] = [i \in ChunkIndexes |-> IF i < NumChunks(text) THEN st[d][i] + 1 ELSE st[d][i]]]

\* finally: db.close() ends the session of the run and the task returns
Close(t) ==
    /\ pc' = [pc EXCEPT ![t] = "done"]
    /\ snap' = [snap EXCEPT ![t] = NewDocument("other")]
    /\ llm' = [llm EXCEPT ![t] = ""]
    /\ failed' = [failed EXCEPT ![t] = ""]
    /\ retry0' = [retry0 EXCEPT ![t] = 0]

(* ------------------------------ actions --------------------------------- *)
\* POST /upload: upload_document creates the record with status "uploaded"
\* and the handler queues process_document_background
upload_document(d, ty, r) ==
    /\ d \notin docs
    /\ docs' = docs \cup {d}
    /\ db' = [db EXCEPT ![d] = NewDocument(ty)]
    /\ file' = [file EXCEPT ![d] = r]
    /\ queue' = [queue EXCEPT ![d] = @ + 1]
    /\ UNCHANGED <<store, reqVars, runVars, dup, apiVars, pureVars>>

\* POST /{doc_id}/reprocess, the query of the document
reprocess_query(d) ==
    /\ d \in docs
    /\ nReqs < MaxReprocess
    /\ nReqs' = nReqs + 1
    /\ rdoc' = [rdoc EXCEPT ![nReqs + 1] = d]
    /\ rpc' = [rpc EXCEPT ![nReqs + 1] = "queried"]
    /\ rsnap' = [rsnap EXCEPT ![nReqs + 1] = db[d]]
    /\ UNCHANGED <<docs, db, file, store, queue, runVars, dup, apiVars, pureVars>>

\* POST /{doc_id}/reprocess, the reset, its commit, the clearing of the cache
\* and the queueing of the run
reprocess_document(r, k) ==
    /\ rpc[r] = "queried"
    /\ k > 0 => redis_up
    /\ cache' = clear_document_cache(cache, rdoc[r], k)
    /\ db' = [db EXCEPT ![rdoc[r]] =
                Commit(@, rsnap[r], [status |-> "uploaded", error_message |-> Null,
                                     retry_count |-> 0])]
    /\ queue' = [queue EXCEPT ![rdoc[r]] = @ + 1]
    /\ rpc' = [rpc EXCEPT ![r] = "done"]
    /\ rsnap' = [rsnap EXCEPT ![r] = NewDocument("other")]
    /\ UNCHANGED <<docs, file, store, nReqs, rdoc, runVars, dup, getVars, delete_response,
                   redis_up, pureVars>>

\* process_document_background up to the query of the document; the query
\* of process_document then finds the same, already loaded, object
process_document_background(d) ==
    /\ queue[d] > 0
    /\ nRuns < MaxRuns
    /\ queue' = [queue EXCEPT ![d] = @ - 1]
    /\ nRuns' = nRuns + 1
    /\ tdoc' = [tdoc EXCEPT ![nRuns + 1] = d]
    /\ snap' = [snap EXCEPT ![nRuns + 1] = db[d]]
    /\ retry0' = [retry0 EXCEPT ![nRuns + 1] = db[d].retry_count]
    /\ dup' = IF db[d].status = "processing" THEN dup \cup {d} ELSE dup
    /\ pc' = [pc EXCEPT ![nRuns + 1] = "loaded"]
    /\ UNCHANGED <<docs, db, file, store, reqVars, llm, failed, apiVars, pureVars>>

\* process_document: status = "processing" and its commit (no test of the
\* status that was read)
process_document(t) ==
    /\ pc[t] = "loaded"
    /\ db' = [db EXCEPT ![tdoc[t]] = Commit(@, snap[t], [status |-> "processing"])]
    /\ pc' = [pc EXCEPT ![t] = "started"]
    /\ UNCHANGED <<docs, file, store, queue, reqVars, nRuns, tdoc, snap, llm, failed, retry0, dup, apiVars, pureVars>>

\* Step 1, the call: document.file_path reloads the expired object, then
\* extract_text is awaited
extract_text_call(t) ==
    /\ pc[t] = "started"
    /\ snap' = [snap EXCEPT ![t] = db[tdoc[t]]]
    /\ pc' = [pc EXCEPT ![t] = "extracting"]
    /\ UNCHANGED <<docs, db, file, store, queue, reqVars, nRuns, tdoc, llm, failed, retry0, dup, apiVars, pureVars>>

\* Step 1, extract_text raises
extract_text_raises(t) ==
    /\ pc[t] = "extracting"
    /\ failed' = [failed EXCEPT ![t] = "extract"]
    /\ pc' = [pc EXCEPT ![t] = "failing"]
    /\ UNCHANGED <<docs, db, file, store, queue, reqVars, nRuns, tdoc, snap, llm, retry0, dup, apiVars, pureVars>>

\* Step 1.5 without its test of the type: the type is detected and committed
\* for every document
extract_text_returns_any_type(t) ==
    /\ pc[t] = "extracting"
    /\ db' = [db EXCEPT ![tdoc[t]] =
                Commit(@, snap[t],
                       [document_type |-> _detect_document_type(ocr_result(t).text)])]
    /\ pc' = [pc EXCEPT ![t] = "classified"]
    /\ UNCHANGED <<docs, file, store, queue, reqVars, nRuns, tdoc, snap, llm, failed, retry0, dup, apiVars, pureVars>>

\* Step 1, extract_text returns; Step 1.5 detects and commits the type of a
\* document of type "other"
extract_text_returns(t) ==
    /\ pc[t] = "extracting"
    /\ IF snap[t].document_type = "other"
         THEN /\ db' = [db EXCEPT ![tdoc[t]] =
                         Commit(@, snap[t],
                                [document_type |-> _detect_document_type(ocr_result(t).text)])]
              /\ pc' = [pc EXCEPT ![t] = "classified"]
         ELSE /\ db' = db
              /\ pc' = [pc EXCEPT ![t] = "analyzing"]
    /\ UNCHANGED <<docs, file, store, queue, reqVars, nRuns, tdoc, snap, llm, failed, retry0, dup, apiVars, pureVars>>

\* Step 2, the call after a commit of the type: document.document_type
\* reloads the expired object
analyze_document_call(t) ==
    /\ pc[t] = "classified"
    /\ snap' = [snap EXCEPT ![t] = db[tdoc[t]]]
    /\ pc' = [pc EXCEPT ![t] = "analyzing"]
    /\ UNCHANGED <<docs, db, file, store, queue, reqVars, nRuns, tdoc, llm, failed, retry0, dup, apiVars, pureVars>>

\* Step 2, analyze_document returns (it returns a dictionary in every case:
\* its own except clause turns an exception of the LLM call into one)
analyze_document_returns(t, o) ==
    /\ pc[t] = "analyzing"
    /\ llm' = [llm EXCEPT ![t] = analyze_document(ocr_result(t).text, o)]
    /\ pc' = [pc EXCEPT ![t] = "embedding"]
    /\ UNCHANGED <<docs, db, file, store, queue, reqVars, nRuns, tdoc, snap, failed, retry0, dup, apiVars, pureVars>>

\* Step 3, create_document_embedding: chunks are embedded, inserted and
\* flushed; an exception before the insert or in the flush is re-raised
create_document_embedding(t, o) ==
    /\ pc[t] = "embedding"
    /\ store' = IF o = "raise_before_insert" THEN store
                ELSE collection_insert(store, tdoc[t], ocr_result(t).text)
    /\ failed' = [failed EXCEPT ![t] = IF o = "ok" THEN "" ELSE "embed"]
    /\ pc' = [pc EXCEPT ![t] = IF o = "ok" THEN "embedded" ELSE "failing"]
    /\ UNCHANGED <<docs, db, file, queue, reqVars, nRuns, tdoc, snap, llm, retry0, dup, apiVars, pureVars>>

\* the results and status "completed" in one commit
finalize(t, secs) ==
    /\ pc[t] = "embedded"
    /\ db' = [db EXCEPT ![tdoc[t]] =
                Commit(@, snap[t],
                       [extracted_text |-> Some(ocr_result(t).text),
                        ocr_confidence |-> Some(ocr_result(t).confidence),
                        processing_time_seconds |-> Some(secs),
                        pages_count |-> Some(ocr_result(t).pages_count),
                        language_detected |-> Some(ocr_result(t).language),
                        llm_analysis |-> Some(llm[t]),
                        status |-> "completed"])]
    /\ Close(t)
    /\ UNCHANGED <<docs, file, store, queue, reqVars, nRuns, tdoc, dup, apiVars, pureVars>>

\* the except clause of process_document: status "failed", the message and
\* retry_count += 1 (on the loaded value) in one commit
handle_exception(t) ==
    /\ pc[t] = "failing"
    /\ db' = [db EXCEPT ![tdoc[t]] =
                Commit(@, snap[t],
                       [status |-> "failed",
                        error_message |-> Some(ErrorMessage(failed[t])),
                        retry_count |-> snap[t].retry_count + 1])]
    /\ Close(t)
    /\ UNCHANGED <<docs, file, store, queue, reqVars, nRuns, tdoc, dup, apiVars, pureVars>>

\* wall-clock seconds a run may measure
MaxSeconds == 2

\* the uploads, reprocess requests and runs of all documents; nothing is
\* cached here, so that it makes no difference how many keys a reprocess deletes
Next ==
    \/ \E d \in Docs, ty \in UploadTypes, r \in OcrResults : upload_document(d, ty, r)
    \/ \E d \in Docs : reprocess_query(d)
    \/ \E r \in Requests : reprocess_document(r, Len(KeyOrder))
    \/ \E d \in Docs : process_document_background(d)
    \/ \E t \in Tasks : process_document(t)
    \/ \E t \in Tasks : extract_text_call(t)
    \/ \E t \in Tasks : extract_text_raises(t)
    \/ \E t \in Tasks : extract_text_returns(t)
    \/ \E t \in Tasks : analyze_document_call(t)
    \/ \E t \in Tasks, o \in LlmOutcomes : analyze_document_returns(t, o)
    \/ \E t \in Tasks, o \in EmbedOutcomes : create_document_embedding(t, o)
    \/ \E t \in Tasks, secs \in 1..MaxSeconds : finalize(t, secs)
    \/ \E t \in Tasks : handle_exception(t)

Spec == Init /\ [][Next]_vars

(* ------------------------------ claims ---------------------------------- *)
\* runs of document d that have ended
Ended(d) == {t \in Tasks : tdoc[t] = d /\ pc[t] = "done"}

\* nothing is queued, running or half-way through a request
Quiescent ==
    /\ \A d \in Docs : queue[d] = 0
    /\ \A t \in Tasks : pc[t] \in {"unused", "done"}
    /\ \A r \in Requests : rpc[r] # "queried"

\* number of chunk batches the collection holds for d (every batch has a chunk 0)
Batches(d) == store[d][0]

\* C1: for any single document at most one stage sequence is in progress at
\* any time; two runs of the same document are never both past the
\* transition to "processing"
C1_AtMostOneRunInProgress ==
    \A d \in Docs : Cardinality(Running(d)) <= 1

\* C2: a run started on a document whose status it read as "processing"
\* returns at once: it changes no field of the record and starts no stages
C2_SubmitOnProcessingIsNoOp ==
    [][\A t \in Tasks :
          (pc[t] = "loaded" /\ snap[t].status = "processing" /\ pc'[t] # "loaded")
              => (pc'[t] = "done" /\ db' = db)]_vars

\* C3: when a document was submitted twice, the second time while it was
\* "processing", then once all work has finished the collection holds one
\* chunk batch for it (none if the run failed before the insert) and a failed
\* run has raised retry_count by exactly 1
C3_NoDuplicateBatchOrRetry ==
    \A d \in Docs :
        (Quiescent /\ d \in dup /\ Cardinality(Ended(d)) = 2)
            => /\ Batches(d) <= 1
               /\ db[d].status = "completed" => Batches(d) = 1
               /\ db[d].status = "failed" => db[d].retry_count = 1

\* the status changes of the state machine
Transitions ==
    { <<"uploaded", "processing">>, <<"processing", "completed">>,
      <<"processing", "failed">>, <<"failed", "processing">>,
      <<"completed", "processing">> }

\* a step of the reprocess handler on document d
ReprocessStep(d) ==
    \E r \in Requests : rdoc[r] = d /\ rpc[r] = "queried" /\ rpc'[r] = "done"

\* C4: the status is always one of the four states, a new document is
\* "uploaded", every change of status is a transition of the state machine,
\* and "failed"/"completed" are left only by Reprocess
C4_StateMachine ==
    /\ [](\A d \in docs : db[d].status \in {"uploaded", "processing", "completed", "failed"})
    /\ [][\A d \in Docs :
            /\ (d \notin docs /\ d \in docs') => db'[d].status = "uploaded"
            /\ (d \in docs /\ db'[d].status # db[d].status) =>
                  /\ <<db[d].status, db'[d].status>> \in Transitions
                  /\ db[d].status \in {"failed", "completed"} => ReprocessStep(d)]_vars

\* C5: llm_analysis and extracted_text are non-null only when the status is
\* "completed"
C5_ResultsOnlyWhenCompleted ==
    \A d \in docs :
        (db[d].llm_analysis # Null \/ db[d].extracted_text # Null)
            => db[d].status = "completed"

\* C6: status "failed" implies a non-null error_message
C6_FailedHasErrorMessage ==
    \A d \in docs : db[d].status = "failed" => db[d].error_message # Null

\* a stage of run t has failed: extract_text or create_document_embedding
\* raised, or the call of the LLM in analyze_document raised
StageFailed(t) == failed[t] # "" \/ llm[t] = "analysis_failed_error"

\* run t ends in this step as a failed run: "failed", a message, one more retry
EndsFailed(t) ==
    pc'[t] = "done" =>
        /\ db'[tdoc[t]].status = "failed"
        /\ db'[tdoc[t]].error_message # Null
        /\ db'[tdoc[t]].retry_count = retry0[t] + 1

\* C7: once a stage of a run has failed, the run executes no later stage and
\* ends with status "failed", the message set and retry_count one greater
\* than before the run
C7_StageFailureStopsRun ==
    [][\A t \in Tasks :
          (StageFailed(t) /\ pc[t] # "done" /\ pc'[t] # pc[t])
              => (pc'[t] \in {"failing", "done"} /\ EndsFailed(t))]_vars

\* C8: a run whose Analyzer call errored does not go on to Embed and does not
\* complete: it ends "failed" with retry_count one greater than before
C8_AnalyzerErrorFailsRun ==
    [][\A t \in Tasks :
          (pc'[t] # pc[t]
             /\ (llm'[t] = "analysis_failed_error" \/ llm[t] = "analysis_failed_error"))
              => (pc'[t] \in {"failing", "done"} /\ EndsFailed(t))]_vars

\* C9: when a stage after a successful Extract fails, the record of the
\* resulting failed run holds the four values that Extract returned
C9_ExtractResultsKeptOnFailure ==
    [][\A t \in Tasks :
          (pc[t] = "failing" /\ failed[t] = "embed" /\ pc'[t] = "done")
              => /\ db'[tdoc[t]].extracted_text = Some(ocr_result(t).text)
                 /\ db'[tdoc[t]].ocr_confidence = Some(ocr_result(t).confidence)
                 /\ db'[tdoc[t]].pages_count = Some(ocr_result(t).pages_count)
                 /\ db'[tdoc[t]].language_detected = Some(ocr_result(t).language)]_vars

\* C10: when the reprocess handler has committed, retry_count is 0 and
\* error_message is null, whatever the record held before
C10_ReprocessResets ==
    [][\A r \in Requests :
          (rpc[r] = "queried" /\ rpc'[r] = "done")
              => /\ db'[rdoc[r]].retry_count = 0
                 /\ db'[rdoc[r]].error_message = Null]_vars

(* ------------------------ reprocess and the index ----------------------- *)
\* C11: a reprocess request on a document that is "processing" (when the
\* handler reads it and when it commits) is rejected: status, error_message
\* and retry_count stay as they are and no further run is queued
C11_ReprocessOnProcessingRejected ==
    [][\A r \in Requests :
          (rpc[r] = "queried" /\ rpc'[r] = "done"
             /\ rsnap[r].status = "processing" /\ db[rdoc[r]].status = "processing")
              => (db' = db /\ queue' = queue)]_vars

\* the chunk records one call of create_document_embedding inserts for a text
BatchOf(text) == [i \in ChunkIndexes |-> IF i < NumChunks(text) THEN 1 ELSE 0]

\* C12: when create_document_embedding has completed for a document, the
\* collection holds for it exactly the chunks of that call: the chunks of
\* earlier calls are gone
C12_IndexReplacesOldBatch ==
    [][\A t \in Tasks :
          (pc[t] = "embedding" /\ pc'[t] = "embedded")
              => store'[tdoc[t]] = BatchOf(ocr_result(t).text)]_vars

\* C13: no two records of the collection have the same id
\* "{doc_id}_chunk_{i}"
C13_ChunkIdsUnique ==
    \A d \in Docs, i \in ChunkIndexes : store[d][i] <= 1

(* ----------------------- VectorService._split_text ---------------------- *)
\* longest text and largest max_chunk_size a call of _split_text is given
MaxTextLen == 6
MaxChunkSize == 3

\* the characters of the texts: a letter, a blank, a full stop, a line feed
Chars == {"a", " ", ".", "\n"}

\* the characters str.split() and str.strip() treat as whitespace
Whitespace == {" ", "\n"}

\* the texts _split_text is called with
SplitTexts == UNION {[1..n -> Chars] : n \in 0..MaxTextLen}

\* text.replace('\n', ' ')
replace(s) == [i \in 1..Len(s) |-> IF s[i] = "\n" THEN " " ELSE s[i]]

\* positions at which the separator '. ' occurs in s
Separators(s) == {i \in 1..(Len(s) - 1) : s[i] = "." /\ s[i + 1] = " "}

\* s.split('. '): the pieces between the occurrences of '. ', scanned from
\* the left, empty pieces included
RECURSIVE split_on_sep(_)
split_on_sep(s) ==
    IF Separators(s) = {} THEN <<s>>
    ELSE LET i == CHOOSE j \in Separators(s) : \A k \in Separators(s) : j <= k
         IN <<SubSeq(s, 1, i - 1)>> \o split_on_sep(SubSeq(s, i + 2, Len(s)))

\* s.lstrip() and s.strip()
RECURSIVE lstrip(_)
lstrip(s) == IF s # <<>> /\ Head(s) \in Whitespace THEN lstrip(Tail(s)) ELSE s

RECURSIVE strip(_)
strip(s) ==
    IF s # <<>> /\ s[Len(s)] \in Whitespace THEN strip(SubSeq(s, 1, Len(s) - 1))
    ELSE lstrip(s)

\* length of the longest prefix of s without whitespace
RECURSIVE WordLen(_)
WordLen(s) == IF s = <<>> \/ Head(s) \in Whitespace THEN 0 ELSE 1 + WordLen(Tail(s))

\* s.split(): the maximal runs of non-whitespace characters of s
RECURSIVE split(_)
split(s) ==
    LET r == lstrip(s)
    IN IF r = <<>> THEN <<>>
       ELSE <<SubSeq(r, 1, WordLen(r))>> \o split(SubSeq(r, WordLen(r) + 1, Len(r)))

\* a call _split_text(text, max_chunk_size) is about to execute
\* the variables a call of _split_text leaves alone
outsideSplit == <<pipelineVars, searchVars, deleted, processing_stats, cleared>>

InitSplit ==
    /\ InitPipeline
    /\ NoSearch
    /\ txt \in SplitTexts
    /\ max_chunk_size \in 1..MaxChunkSize
    /\ spc = "call"
    /\ sentences = <<>>
    /\ chunks = <<>>
    /\ current_chunk = <<>>
    /\ words = <<>>
    /\ temp_chunk = <<>>

\* a short text cut into its words
return_text_split(N) ==
    /\ spc = "call"
    /\ max_chunk_size = N
    /\ Len(txt) <= N
    /\ chunks' = split(txt)
    /\ spc' = "return"
    /\ UNCHANGED <<txt, max_chunk_size, sentences, current_chunk, words, temp_chunk, outsideSplit>>

\* if len(text) <= max_chunk_size: return [text]
return_text(N) ==
    /\ spc = "call"
    /\ max_chunk_size = N
    /\ Len(txt) <= N
    /\ chunks' = <<txt>>
    /\ spc' = "return"
    /\ UNCHANGED <<txt, max_chunk_size, sentences, current_chunk, words, temp_chunk, outsideSplit>>

\* sentences = text.replace('\n', ' ').split('. ')
split_sentences(N) ==
    /\ spc = "call"
    /\ max_chunk_size = N
    /\ Len(txt) > N
    /\ sentences' = split_on_sep(replace(txt))
    /\ spc' = "for"
    /\ UNCHANGED <<txt, max_chunk_size, chunks, current_chunk, words, temp_chunk, outsideSplit>>

\* for sentence in sentences, else branch: current_chunk += sentence + ". "
append_sentence ==
    /\ spc = "for"
    /\ sentences # <<>>
    /\ Len(current_chunk \o Head(sentences)) <= max_chunk_size
    /\ current_chunk' = current_chunk \o Head(sentences) \o <<".", " ">>
    /\ sentences' = Tail(sentences)
    /\ UNCHANGED <<txt, max_chunk_size, spc, chunks, words, temp_chunk, outsideSplit>>

\* for sentence in sentences, the sentence does not fit and current_chunk is
\* not empty: the chunk is appended and current_chunk = sentence
start_new_chunk ==
    /\ spc = "for"
    /\ sentences # <<>>
    /\ Len(current_chunk \o Head(sentences)) > max_chunk_size
    /\ current_chunk # <<>>
    /\ chunks' = Append(chunks, strip(current_chunk))
    /\ current_chunk' = Head(sentences)
    /\ sentences' = Tail(sentences)
    /\ UNCHANGED <<txt, max_chunk_size, spc, words, temp_chunk, outsideSplit>>

\* for sentence in sentences, the sentence does not fit and current_chunk is
\* empty: words = sentence.split()
split_words ==
    /\ spc = "for"
    /\ sentences # <<>>
    /\ Len(current_chunk \o Head(sentences)) > max_chunk_size
    /\ current_chunk = <<>>
    /\ words' = split(Head(sentences))
    /\ sentences' = Tail(sentences)
    /\ spc' = "while"
    /\ UNCHANGED <<txt, max_chunk_size, chunks, current_chunk, temp_chunk, outsideSplit>>

\* while words: temp_chunk = ""
while_words ==
    /\ spc = "while"
    /\ words # <<>>
    /\ temp_chunk' = <<>>
    /\ spc' = "inner"
    /\ UNCHANGED <<txt, max_chunk_size, sentences, chunks, current_chunk, words, outsideSplit>>

\* while words: the loop ends, the for loop goes on
end_while ==
    /\ spc = "while"
    /\ words = <<>>
    /\ spc' = "for"
    /\ UNCHANGED <<txt, max_chunk_size, sentences, chunks, current_chunk, words, temp_chunk, outsideSplit>>

\* while words and len(temp_chunk + words[0]) < max_chunk_size
more_words == words # <<>> /\ Len(temp_chunk \o Head(words)) < max_chunk_size

\* temp_chunk += words.pop(0) + " "
pop_word ==
    /\ spc = "inner"
    /\ more_words
    /\ temp_chunk' = temp_chunk \o Head(words) \o <<" ">>
    /\ words' = Tail(words)
    /\ UNCHANGED <<txt, max_chunk_size, spc, sentences, chunks, current_chunk, outsideSplit>>

\* the inner loop ends: if temp_chunk: chunks.append(temp_chunk.strip())
append_temp_chunk ==
    /\ spc = "inner"
    /\ ~more_words
    /\ chunks' = IF temp_chunk # <<>> THEN Append(chunks, strip(temp_chunk)) ELSE chunks
    /\ spc' = "while"
    /\ UNCHANGED <<txt, max_chunk_size, sentences, current_chunk, words, temp_chunk, outsideSplit>>

\* the for loop ends: if current_chunk.strip(): chunks.append(...); return chunks
return_chunks ==
    /\ spc = "for"
    /\ sentences = <<>>
    /\ chunks' = IF strip(current_chunk) # <<>> THEN Append(chunks, strip(current_chunk))
                 ELSE chunks
    /\ spc' = "return"
    /\ UNCHANGED <<txt, max_chunk_size, sentences, current_chunk, words, temp_chunk, outsideSplit>>

NextSplit ==
    \/ \E N \in 1..MaxChunkSize : return_text(N)
    \/ \E N \in 1..MaxChunkSize : split_sentences(N)
    \/ append_sentence
    \/ start_new_chunk
    \/ split_words
    \/ while_words
    \/ end_while
    \/ pop_word
    \/ append_temp_chunk
    \/ return_chunks

SpecSplit == InitSplit /\ [][NextSplit]_vars

\* the call is executed to its end if it has one: it is never suspended
\* for ever
SpecSplitFair == SpecSplit /\ WF_vars(NextSplit)

\* the words of all chunks of a list, in order
RECURSIVE WordsOf(_)
WordsOf(cs) == IF cs = <<>> THEN <<>> ELSE split(Head(cs)) \o WordsOf(Tail(cs))

\* a chunk that is one whitespace-free token of the text
IsTokenOfText(c) ==
    /\ \A i \in 1..Len(c) : c[i] \notin Whitespace
    /\ \E i \in 1..Len(split(txt)) : split(txt)[i] = c

\* C14: every chunk _split_text returns is at most max_chunk_size long,
\* unless it is a single whitespace-free token of the text that is itself
\* longer than max_chunk_size
C14_ChunkLengthBounded ==
    spc = "return" =>
        \A i \in 1..Len(chunks) :
            Len(chunks[i]) <= max_chunk_size \/ IsTokenOfText(chunks[i])

\* C15: the words of the returned chunks, taken in order, are the words of
\* the text
C15_WordsPreserved ==
    spc = "return" => WordsOf(chunks) = split(txt)

\* C16: every call of _split_text returns
C16_SplitTerminates == <>(spc = "return")

(* ----------------- VectorService.search_similar_documents --------------- *)
\* largest limit a search is called with
MaxLimit == 2

\* the documents and document types the records of the collection belong to
HitDocs == {"d1", "d2", "d3"}
HitTypes == {"invoice", "contract"}

\* a hit as the loop reads it: the document_id of the entity and the
\* document_type of its metadata
Hits == [document_id : HitDocs, document_type : HitTypes]

\* the results collection.search(..., limit = limit * 2) may return for one
\* query vector: at most limit * 2 records of the collection, in any order
HitLists(k) == UNION {[1..n -> Hits] : n \in 0..(2 * k)}

\* a call search_similar_documents(query_text, limit, filter_metadata) is
\* about to execute
InitSearch ==
    /\ InitPipeline
    /\ NoSplit
    /\ limit \in 1..MaxLimit
    /\ filter_metadata \in {Null} \cup {Some(ty) : ty \in HitTypes}
    /\ hits = <<>>
    /\ hit_index = 0
    /\ similar_docs = <<>>
    /\ seen_documents = {}
    /\ sch = "call"
    /\ corpus = <<>>
    /\ NoPreview

\* the variables a call of search_similar_documents leaves alone
outsideSearch == <<pipelineVars, splitVars, corpus, text_chunk, text_preview, deleted,
                   processing_stats, cleared>>

\* search_results = self.collection.search(data=[...], limit=limit * 2, ...):
\* no expr is passed, filter_metadata is not used
collection_search ==
    /\ sch = "call"
    /\ \E h \in HitLists(limit) : hits' = h
    /\ sch' = "for"
    /\ UNCHANGED <<limit, filter_metadata, hit_index, similar_docs, seen_documents,
                   outsideSearch>>

\* except Exception: return [] (encode, load or search raised)
search_raises ==
    /\ sch = "call"
    /\ sch' = "return"
    /\ UNCHANGED <<limit, filter_metadata, hits, hit_index, similar_docs, seen_documents,
                   outsideSearch>>

\* the test of seen_documents left out
already_seen_never(hit) == FALSE

\* if doc_id in seen_documents
already_seen(hit) == hit.document_id \in seen_documents

\* a hit of a document already listed takes the place of the listed one
replace_hit ==
    /\ sch = "for"
    /\ hit_index < Len(hits)
    /\ already_seen(hits[hit_index + 1])
    /\ similar_docs' = [i \in 1..Len(similar_docs) |->
                           IF similar_docs[i].document_id = hits[hit_index + 1].document_id
                             THEN hits[hit_index + 1] ELSE similar_docs[i]]
    /\ hit_index' = hit_index + 1
    /\ UNCHANGED <<limit, filter_metadata, hits, seen_documents, sch, outsideSearch>>

\* for hit in hits: the document of the hit was seen, continue
skip_hit ==
    /\ sch = "for"
    /\ hit_index < Len(hits)
    /\ already_seen(hits[hit_index + 1])
    /\ hit_index' = hit_index + 1
    /\ UNCHANGED <<limit, filter_metadata, hits, similar_docs, seen_documents, sch,
                   outsideSearch>>

\* for hit in hits: a new document is added to seen_documents and to
\* similar_docs; if len(similar_docs) >= limit: break (search_results holds
\* one list of hits, so the break ends the processing)
append_hit ==
    /\ sch = "for"
    /\ hit_index < Len(hits)
    /\ ~already_seen(hits[hit_index + 1])
    /\ seen_documents' = seen_documents \cup {hits[hit_index + 1].document_id}
    /\ similar_docs' = Append(similar_docs, hits[hit_index + 1])
    /\ hit_index' = hit_index + 1
    /\ sch' = IF Len(similar_docs') >= limit THEN "return" ELSE "for"
    /\ UNCHANGED <<limit, filter_metadata, hits, outsideSearch>>

\* the hits are exhausted: return similar_docs
return_similar_docs ==
    /\ sch = "for"
    /\ hit_index = Len(hits)
    /\ sch' = "return"
    /\ UNCHANGED <<limit, filter_metadata, hits, hit_index, similar_docs, seen_documents,
                   outsideSearch>>

NextSearch ==
    \/ collection_search
    \/ search_raises
    \/ skip_hit
    \/ append_hit
    \/ return_similar_docs

SpecSearch == InitSearch /\ [][NextSearch]_vars

C18_TypeFilterApplied ==
    (sch = "return" /\ filter_metadata # Null) =>
        \A i \in 1..Len(similar_docs) : similar_docs[i].document_type = filter_metadata[1]

(* ------------------- the cache, GET results and DELETE ------------------ *)
\* cache_service.get_document_results(doc_id): None when the client is None
\* or the call raises, else what is stored under "results:{doc_id}"
cached_results(d) == IF redis_up THEN cache[d]["results"] ELSE Null

\* GET /{doc_id}/results, the cache is tried first: a hit is returned at
\* once (no state changes); on a miss, or when Redis raises or the client is
\* None, the handler goes on to the database
get_document_results(g, d, redis_ok) ==
    /\ gpc[g] = "idle"
    /\ redis_ok => redis_up
    /\ IF redis_ok /\ cached_results(d) # Null
         THEN UNCHANGED <<gpc, gdoc>>
         ELSE /\ gpc' = [gpc EXCEPT ![g] = "missed"]
              /\ gdoc' = [gdoc EXCEPT ![g] = d]
    /\ UNCHANGED <<docs, db, file, store, queue, reqVars, runVars, dup, cache, gsnap,
                   delete_response, redis_up, pureVars>>

\* GET /{doc_id}/results, the query: 404 for no document, 400 unless the
\* status is "completed", else the results are built from the row
query_document(g) ==
    /\ gpc[g] = "missed"
    /\ IF gdoc[g] \in docs /\ db[gdoc[g]].status = "completed"
         THEN /\ gsnap' = [gsnap EXCEPT ![g] = db[gdoc[g]]]
              /\ gpc' = [gpc EXCEPT ![g] = "built"]
         ELSE /\ gsnap' = gsnap
              /\ gpc' = [gpc EXCEPT ![g] = "idle"]
    /\ UNCHANGED <<docs, db, file, store, queue, reqVars, runVars, dup, cache, gdoc,
                   delete_response, redis_up, pureVars>>

\* GET /{doc_id}/results, cache_service.set_document_results and the return
\* of the results (nothing is written when Redis raises or the client is None)
set_document_results(g, redis_ok) ==
    /\ gpc[g] = "built"
    /\ redis_ok => redis_up
    /\ cache' = IF redis_ok
                  THEN [cache EXCEPT ![gdoc[g]]["results"] = Some(gsnap[g])]
                  ELSE cache
    /\ gpc' = [gpc EXCEPT ![g] = "idle"]
    /\ gsnap' = [gsnap EXCEPT ![g] = NewDocument("other")]
    /\ UNCHANGED <<docs, db, file, store, queue, reqVars, runVars, dup, gdoc,
                   delete_response, redis_up, pureVars>>

\* the time to live of a cache entry ends
expire(d, key) ==
    /\ cache[d][key] # Null
    /\ cache' = [cache EXCEPT ![d][key] = Null]
    /\ UNCHANGED <<docs, db, file, store, queue, reqVars, runVars, dup, getVars,
                   delete_response, redis_up, pureVars>>

\* DELETE /{doc_id} as a handler that reaches delete_document_embeddings and
\* clear_document_cache whatever the status of the document is
delete_document_cascading(d) ==
    /\ delete_response' = [delete_response EXCEPT ![d] =
            IF d \in docs /\ db[d].status = "processing" THEN "200_while_processing"
            ELSE "200"]
    /\ store' = [store EXCEPT ![d] = [i \in ChunkIndexes |-> 0]]
    /\ cache' = clear_document_cache(cache, d, Len(KeyOrder))
    /\ UNCHANGED <<docs, db, file, queue, reqVars, runVars, dup, getVars, redis_up, pureVars>>

\* DELETE /{doc_id}: document_service.delete_document is not a method of
\* DocumentService, the call raises AttributeError, which the handler's
\* except Exception turns into the answer 500; delete_document_embeddings
\* and clear_document_cache are not reached (the history also tells whether
\* the document was "processing" when the request was answered)
delete_document(d) ==
    /\ delete_response' = [delete_response EXCEPT ![d] =
            IF d \in docs /\ db[d].status = "processing" THEN "500_while_processing"
            ELSE "500"]
    /\ UNCHANGED <<docs, db, file, store, queue, reqVars, runVars, dup, cache, getVars,
                   redis_up, pureVars>>

\* the handlers and runs of one document, with the cache
NextApi ==
    \/ \E ty \in UploadTypes, r \in OcrResults : upload_document("d1", ty, r)
    \/ reprocess_query("d1")
    \/ \E r \in Requests, k \in 0..Len(KeyOrder) : reprocess_document(r, k)
    \/ process_document_background("d1")
    \/ \E t \in Tasks : process_document(t)
    \/ \E t \in Tasks : extract_text_call(t)
    \/ \E t \in Tasks : extract_text_raises(t)
    \/ \E t \in Tasks : extract_text_returns(t)
    \/ \E t \in Tasks : analyze_document_call(t)
    \/ \E t \in Tasks, o \in LlmOutcomes : analyze_document_returns(t, o)
    \/ \E t \in Tasks, o \in EmbedOutcomes : create_document_embedding(t, o)
    \/ \E t \in Tasks, secs \in 1..MaxSeconds : finalize(t, secs)
    \/ \E t \in Tasks : handle_exception(t)
    \/ \E g \in Gets, ok \in BOOLEAN : get_document_results(g, "d1", ok)
    \/ \E g \in Gets : query_document(g)
    \/ \E g \in Gets, ok \in BOOLEAN : set_document_results(g, ok)
    \/ \E key \in CacheKeys : expire("d1", key)
    \/ delete_document("d1")

SpecApi == Init /\ [][NextApi]_vars

\* the answer of GET /{doc_id}/results to a request served in this state
results_answer(d) ==
    IF cached_results(d) # Null THEN "results"
    ELSE IF d \notin docs THEN "404"
    ELSE IF db[d].status # "completed" THEN "400"
    ELSE "results"

\* C19: in every state, GET results on a document whose stored status is not
\* "completed" is answered with the error 400, never with results, also when
\* results of the document were cached earlier; and a request writes a
\* cache entry only for a row it read as "completed"
C19_ResultsOnlyForCompleted ==
    /\ [](\A d \in docs : db[d].status # "completed" => results_answer(d) = "400")
    /\ [][\A g \in Gets :
            (gpc[g] = "built" /\ gpc'[g] = "idle" /\ cache' # cache)
                => gsnap[g].status = "completed"]_vars

\* C20: DELETE on an existing document leaves no chunk of it in the
\* collection and no cache entry of it
C20_DeleteRemovesChunksAndCache ==
    [][\A d \in docs :
          delete_response'[d] # delete_response[d]
              => /\ \A i \in ChunkIndexes : store'[d][i] = 0
                 /\ \A key \in CacheKeys : cache'[d][key] = Null]_vars

cached_status_unguarded(d) == cache[d]["status"]

\* cache_service.get_document_status(doc_id): None when the client is None
\* or the call raises, else what is stored under "status:{doc_id}"
cached_status(d) == IF redis_up THEN cache[d]["status"] ELSE Null

\* GET /{doc_id}/status, the cache is tried first: a hit is returned at once
\* (no state changes); on a miss, or when Redis raises or the client is None,
\* the handler goes on to the database
get_document_status(g, d, redis_ok) ==
    /\ gpc[g] = "idle"
    /\ redis_ok => redis_up
    /\ IF redis_ok /\ cached_status(d) # Null
         THEN UNCHANGED <<gpc, gdoc>>
         ELSE /\ gpc' = [gpc EXCEPT ![g] = "status_missed"]
              /\ gdoc' = [gdoc EXCEPT ![g] = d]
    /\ UNCHANGED <<docs, db, file, store, queue, reqVars, runVars, dup, cache, gsnap,
                   delete_response, redis_up, pureVars>>

\* GET /{doc_id}/status, the query: 404 for no document, else the response is
\* built from document.to_dict()
query_document_status(g) ==
    /\ gpc[g] = "status_missed"
    /\ IF gdoc[g] \in docs
         THEN /\ gsnap' = [gsnap EXCEPT ![g] = db[gdoc[g]]]
              /\ gpc' = [gpc EXCEPT ![g] = "status_built"]
         ELSE /\ gsnap' = gsnap
              /\ gpc' = [gpc EXCEPT ![g] = "idle"]
    /\ UNCHANGED <<docs, db, file, store, queue, reqVars, runVars, dup, cache, gdoc,
                   delete_response, redis_up, pureVars>>

\* GET /{doc_id}/status, cache_service.set_document_status and the return of
\* the response (nothing is written when Redis raises or the client is None)
set_document_status(g, redis_ok) ==
    /\ gpc[g] = "status_built"
    /\ redis_ok => redis_up
    /\ cache' = IF redis_ok
                  THEN [cache EXCEPT ![gdoc[g]]["status"] = Some(gsnap[g])]
                  ELSE cache
    /\ gpc' = [gpc EXCEPT ![g] = "idle"]
    /\ gsnap' = [gsnap EXCEPT ![g] = NewDocument("other")]
    /\ UNCHANGED <<docs, db, file, store, queue, reqVars, runVars, dup, gdoc,
                   delete_response, redis_up, pureVars>>

\* the Redis server becomes unreachable (or was so when CacheService was
\* constructed, which leaves redis_client None), and becomes reachable again
redis_fails ==
    /\ redis_up
    /\ redis_up' = FALSE
    /\ UNCHANGED <<docs, db, file, store, queue, reqVars, runVars, dup, cache, getVars,
                   delete_response, pureVars>>

redis_recovers ==
    /\ ~redis_up
    /\ redis_up' = TRUE
    /\ UNCHANGED <<docs, db, file, store, queue, reqVars, runVars, dup, cache, getVars,
                   delete_response, pureVars>>

\* number of background runs that may start in one behaviour of SpecCache
MaxRunsWithCache == 1

\* the handlers and runs of one document, with the cache, both GET handlers
\* and outages of Redis
NextCache ==
    \/ \E ty \in UploadTypes, r \in OcrResults : upload_document("d1", ty, r)
    \/ reprocess_query("d1")
    \/ \E r \in Requests, k \in 0..Len(KeyOrder) : reprocess_document(r, k)
    \/ nRuns < MaxRunsWithCache /\ process_document_background("d1")
    \/ \E t \in Tasks : process_document(t)
    \/ \E t \in Tasks : extract_text_call(t)
    \/ \E t \in Tasks : extract_text_raises(t)
    \/ \E t \in Tasks : extract_text_returns(t)
    \/ \E t \in Tasks : analyze_document_call(t)
    \/ \E t \in Tasks, o \in LlmOutcomes : analyze_document_returns(t, o)
    \/ \E t \in Tasks, o \in EmbedOutcomes : create_document_embedding(t, o)
    \/ \E t \in Tasks, secs \in 1..MaxSeconds : finalize(t, secs)
    \/ \E t \in Tasks : handle_exception(t)
    \/ \E g \in Gets, ok \in BOOLEAN : get_document_status(g, "d1", ok)
    \/ \E g \in Gets : query_document_status(g)
    \/ \E g \in Gets, ok \in BOOLEAN : set_document_status(g, ok)
    \/ \E g \in Gets, ok \in BOOLEAN : get_document_results(g, "d1", ok)
    \/ \E g \in Gets : query_document(g)
    \/ \E g \in Gets, ok \in BOOLEAN : set_document_results(g, ok)
    \/ \E key \in CacheKeys : expire("d1", key)
    \/ redis_fails
    \/ redis_recovers

SpecCache == Init /\ [][NextCache]_vars

\* the fields of the row that DocumentStatusResponse and DocumentResults carry
StatusFields == {"document_type", "status", "processing_time_seconds", "ocr_confidence",
                 "pages_count", "language_detected", "error_message"}

ResultsFields == {"status", "extracted_text", "llm_analysis", "ocr_confidence",
                  "processing_time_seconds", "pages_count", "language_detected"}

DocumentStatusResponse(row) == [f \in StatusFields |-> row[f]]

DocumentResults(row) == [f \in ResultsFields |-> row[f]]

\* C22: the cache entries of a document are invalidated by every change of
\* its record, so that what GET status or GET results would return from the
\* cache is never a snapshot older than the record
C22_CacheInvalidatedOnMutation ==
    \A d \in docs :
        /\ cache[d]["status"] # Null =>
              DocumentStatusResponse(cache[d]["status"][1]) = DocumentStatusResponse(db[d])
        /\ cache[d]["results"] # Null =>
              DocumentResults(cache[d]["results"][1]) = DocumentResults(db[d])

\* the answer of GET /{doc_id}/status to a request served in this state, and
\* the answer it gives from the record alone
status_from_record(d) ==
    IF d \notin docs THEN [code |-> 404, body |-> Null]
    ELSE [code |-> 200, body |-> Some(DocumentStatusResponse(db[d]))]

status_answer(d) ==
    IF cached_status(d) # Null
      THEN [code |-> 200, body |-> Some(DocumentStatusResponse(cached_status(d)[1]))]
      ELSE status_from_record(d)

\* the answer of GET /{doc_id}/results from the record alone
results_from_record(d) ==
    IF d \notin docs THEN "404"
    ELSE IF db[d].status # "completed" THEN "400"
    ELSE "results"

\* a step of a handler that uses the cache
CacheUserStep == gpc' # gpc \/ rpc' # rpc

\* C23: while Redis cannot be reached, GET status and GET results answer
\* from the record, a request that tries the cache goes on to the database,
\* no handler changes the cache, and reprocess still queues its run
C23_CacheOutageDegradesToMiss ==
    /\ [](~redis_up =>
            \A d \in Docs : /\ status_answer(d) = status_from_record(d)
                            /\ results_answer(d) = results_from_record(d))
    /\ [][(~redis_up /\ ~redis_up' /\ CacheUserStep) =>
            /\ cache' = cache
            /\ \A g \in Gets : (gpc[g] = "idle" /\ gpc'[g] # "idle")
                                  => gpc'[g] \in {"missed", "status_missed"}
            /\ \A r \in Requests : (rpc[r] = "queried" /\ rpc'[r] = "done")
                                  => queue'[rdoc[r]] = queue[rdoc[r]] + 1]_vars

\* Redis is out of reach, a status entry of the document is still stored
\* and differs from the record, and a GET status request has been answered
\* past it from the database
C23_Witness ==
    /\ ~redis_up
    /\ cache["d1"]["status"] # Null
    /\ DocumentStatusResponse(cache["d1"]["status"][1]) # DocumentStatusResponse(db["d1"])
    /\ \E g \in Gets : gpc[g] = "status_built" /\ gdoc[g] = "d1" /\ gsnap[g] = db["d1"]

(* ------------- a run with create_document_embedding in detail ----------- *)
\* create_document_embedding, its first statement: the call
\* self._split_text(text, max_chunk_size=1000) on the extracted text, whose
\* characters are looked at here for the first time (1000 at the scale of
\* MaxChunkSize)
_split_text_call(t) ==
    /\ pc[t] = "embedding"
    /\ spc = "idle"
    /\ txt' \in SplitTexts
    /\ max_chunk_size' = MaxChunkSize
    /\ spc' = "call"
    /\ UNCHANGED <<sentences, chunks, current_chunk, words, temp_chunk, outsideSplit>>

\* create_document_embedding after _split_text has returned: the chunks are
\* encoded, one record "{doc_id}_chunk_{i}" per chunk i is inserted (the
\* collection is observed at the indexes ChunkIndexes) and flushed; an
\* exception before the insert or in the flush is re-raised
encode_and_insert(t, o) ==
    /\ pc[t] = "embedding"
    /\ spc = "return"
    /\ store' = IF o = "raise_before_insert" THEN store
                ELSE [store EXCEPT ![tdoc[t]] =
                        [i \in ChunkIndexes |-> IF i < Len(chunks) THEN @[i] + 1 ELSE @[i]]]
    /\ failed' = [failed EXCEPT ![t] = IF o = "ok" THEN "" ELSE "embed"]
    /\ pc' = [pc EXCEPT ![t] = IF o = "ok" THEN "embedded" ELSE "failing"]
    /\ UNCHANGED <<docs, db, file, queue, reqVars, nRuns, tdoc, snap, llm, retry0, dup, apiVars, pureVars>>

\* the documents of a single upload
RunDocs == {"d1"}

\* the steps of the background task of the document, _split_text included
RunStep ==
    \/ \E d \in RunDocs : process_document_background(d)
    \/ \E t \in Tasks : process_document(t)
    \/ \E t \in Tasks : extract_text_call(t)
    \/ \E t \in Tasks : extract_text_raises(t)
    \/ \E t \in Tasks : extract_text_returns(t)
    \/ \E t \in Tasks : analyze_document_call(t)
    \/ \E t \in Tasks, o \in LlmOutcomes : analyze_document_returns(t, o)
    \/ \E t \in Tasks : _split_text_call(t)
    \/ NextSplit
    \/ \E t \in Tasks, o \in EmbedOutcomes : encode_and_insert(t, o)
    \/ \E t \in Tasks, secs \in 1..MaxSeconds : finalize(t, secs)
    \/ \E t \in Tasks : handle_exception(t)

\* one upload and the run it queues
NextRun ==
    \/ \E d \in RunDocs, ty \in UploadTypes, r \in OcrResults : upload_document(d, ty, r)
    \/ RunStep

SpecRun == Init /\ [][NextRun]_vars

\* the event loop goes on executing a task that can take a step, and every
\* awaited call of a collaborator returns or raises
SpecRunFair == SpecRun /\ WF_vars(RunStep)

\* C24: a document whose status is "processing" eventually has status
\* "completed" or "failed"
C24_ProcessingEnds ==
    \A d \in RunDocs :
        (d \in docs /\ db[d].status = "processing")
            ~> (db[d].status \in {"completed", "failed"})

\* C25: the step in which a run with a failed stage ends (the return of
\* process_document_background, which swallows the exception) leaves the
\* failure on the record: status "failed", a message, retry_count one more
\* than before the step
C25_StageFailureRecorded ==
    [][\A t \in Tasks :
          (StageFailed(t) /\ pc[t] # "done" /\ pc'[t] = "done")
              => /\ db'[tdoc[t]].status = "failed"
                 /\ db'[tdoc[t]].error_message # Null
                 /\ db'[tdoc[t]].retry_count = db[tdoc[t]].retry_count + 1]_vars

\* a step in which the call ends without a list of hits: encode, load or
\* search raised, the Embedder or the Vector Store is unavailable
CollaboratorUnavailable == sch = "call" /\ sch' # "call" /\ sch' # "for"

\* C26: a search ends with SearchError exactly when a collaborator was
\* unavailable, and a search over an empty corpus returns the empty list
C26_SearchErrorIffUnavailable ==
    [][/\ CollaboratorUnavailable => sch' = "raise"
       /\ (sch # "raise" /\ sch' = "raise") => CollaboratorUnavailable
       /\ (sch = "for" /\ sch' = "return" /\ hits = <<>>) => similar_docs' = <<>>]_vars

\* the positions of a run in the order of the stages: Extract (started,
\* extracting), Classify (classified), Analyze (analyzing), Embed (embedding),
\* Finalize (embedded), and the way out of a stage that failed (failing)
StageOrder ==
    { <<"unused", "loaded">>, <<"loaded", "started">>, <<"started", "extracting">>,
      <<"extracting", "classified">>, <<"extracting", "analyzing">>,
      <<"extracting", "failing">>, <<"classified", "analyzing">>,
      <<"analyzing", "embedding">>, <<"analyzing", "failing">>,
      <<"embedding", "embedded">>, <<"embedding", "failing">>,
      <<"embedded", "done">>, <<"failing", "done">> }

\* C27: every run goes through the stages in the order Extract, Classify
\* (exactly when the type it read is "other"), Analyze, Embed, Finalize,
\* starting at Extract, and a stage starts only when the stage before it has
\* returned without a failure
C27_StagesInOrder ==
    [][\A t \in Tasks :
          pc'[t] # pc[t] =>
              /\ <<pc[t], pc'[t]>> \in StageOrder
              /\ pc[t] = "extracting" =>
                    (pc'[t] = "classified" <=>
                        (failed'[t] = "" /\ snap[t].document_type = "other"))
              /\ pc'[t] \in {"classified", "analyzing", "embedding", "embedded"} =>
                    ~StageFailed(t)']_vars

Malformed(value) == value \in {"fallback_parsed", "analysis_failed_error"}

\* C29: a run whose Analyze stage got a malformed response goes on to Embed,
\* and when Embed has succeeded it ends "completed" with llm_analysis set
C29_MalformedResponseAccepted ==
    [][\A t \in Tasks :
          /\ (pc[t] = "analyzing" /\ pc'[t] # "analyzing" /\ Malformed(llm'[t]))
                => pc'[t] = "embedding"
          /\ (pc[t] = "embedded" /\ pc'[t] = "done" /\ Malformed(llm[t]))
                => /\ db'[tdoc[t]].status = "completed"
                   /\ db'[tdoc[t]].llm_analysis # Null]_vars

\* a run of document d ends in this step as a failed run (the except clause
\* of process_document commits)
FailedRunEnds(d) == \E t \in Tasks : tdoc[t] = d /\ pc[t] = "failing" /\ pc'[t] = "done"

\* C30: the end of a failed run adds exactly 1 to retry_count; no other step
\* changes it (not the end of a successful run, not a GET) except the commit
\* of the reprocess handler, which sets it to 0
C30_RetryCountCountsFailedRuns ==
    [][\A d \in docs :
          /\ FailedRunEnds(d) => db'[d].retry_count = db[d].retry_count + 1
          /\ (~FailedRunEnds(d) /\ db'[d].retry_count # db[d].retry_count)
                => (ReprocessStep(d) /\ db'[d].retry_count = 0)]_vars

\* C31: processing_time_seconds changes only in the last commit of a run
\* that succeeded, and after that commit the status is "completed"; the end
\* of a failed run leaves it as it was
C31_ProcessingTimeOnlyByFinalize ==
    [][\A d \in docs :
          db'[d].processing_time_seconds # db[d].processing_time_seconds
              => /\ \E t \in Tasks :
                       tdoc[t] = d /\ pc[t] = "embedded" /\ pc'[t] = "done"
                 /\ db'[d].status = "completed"]_vars

(* --------------------- the hits of a search, with scores ---------------- *)
\* largest similarity score of a hit (inner product, greater is nearer)
MaxScore == 2

\* a hit as the loop of search_similar_documents reads it: the document and
\* the index of the chunk, and hit.score
ScoredHits == [document_id : HitDocs, chunk_index : ChunkIndexes, score : 1..MaxScore]

\* Milvus returns the hits of a query nearest first
IsDescending(h) == \A i \in 1..(Len(h) - 1) : h[i].score >= h[i + 1].score

\* the lists of at most 2 * k hits a search with limit k can return
ScoredHitLists(k) ==
    {h \in UNION {[1..n -> ScoredHits] : n \in 0..(2 * k)} : IsDescending(h)}

\* search_results = self.collection.search(..., limit=limit * 2,
\* output_fields=["document_id", "text_chunk", "metadata", "chunk_index"])
collection_search_scored ==
    /\ sch = "call"
    /\ \E h \in ScoredHitLists(limit) : hits' = h
    /\ sch' = "for"
    /\ UNCHANGED <<limit, filter_metadata, hit_index, similar_docs, seen_documents,
                   outsideSearch>>

NextRank ==
    \/ collection_search_scored
    \/ search_raises
    \/ skip_hit
    \/ append_hit
    \/ return_similar_docs

SpecRank == InitSearch /\ [][NextRank]_vars

\* the first hit of document d in the list h
FirstHit(h, d) == h[CHOOSE k \in 1..Len(h) :
                        /\ h[k].document_id = d
                        /\ \A j \in 1..(k - 1) : h[j].document_id # d]

\* C32: the results are in descending order of score, and the result of a
\* document carries the score and chunk_index of the first hit of that
\* document, which no other hit of the document exceeds
C32_BestChunkPerDocumentInOrder ==
    sch = "return" =>
        /\ IsDescending(similar_docs)
        /\ \A i \in 1..Len(similar_docs) :
              /\ similar_docs[i] = FirstHit(hits, similar_docs[i].document_id)
              /\ \A k \in 1..Len(hits) :
                    hits[k].document_id = similar_docs[i].document_id
                        => hits[k].score <= similar_docs[i].score

\* a search has returned two documents with different scores after it had
\* skipped a lower chunk of the first of them
C32_Witness ==
    /\ sch = "return"
    /\ Len(similar_docs) = 2
    /\ similar_docs[1].score > similar_docs[2].score
    /\ \E k \in 1..hit_index :
          /\ hits[k].document_id = similar_docs[1].document_id
          /\ hits[k].chunk_index # similar_docs[1].chunk_index
          /\ hits[k].score < similar_docs[1].score

(* ------------------- a search over a given collection ------------------- *)
\* largest number of chunks the collection holds
MaxCorpus == 5

\* a search over a collection of at most MaxCorpus chunks of the documents
\* HitDocs, in any order of nearness to the query
InitCorpus ==
    /\ InitPipeline
    /\ NoSplit
    /\ limit \in 1..MaxLimit
    /\ filter_metadata = Null
    /\ hits = <<>>
    /\ hit_index = 0
    /\ similar_docs = <<>>
    /\ seen_documents = {}
    /\ sch = "call"
    /\ corpus \in UNION {[1..n -> HitDocs] : n \in 0..MaxCorpus}
    /\ NoPreview

\* the smaller of two numbers
Min(a, b) == IF a <= b THEN a ELSE b

\* collection.search(..., limit=limit * 2, ...): the limit * 2 nearest chunks
\* of the collection, each with its document and its rank
collection_search_corpus ==
    /\ sch = "call"
    /\ hits' = [i \in 1..Min(2 * limit, Len(corpus)) |->
                   [document_id |-> corpus[i], rank |-> i]]
    /\ sch' = "for"
    /\ UNCHANGED <<limit, filter_metadata, hit_index, similar_docs, seen_documents,
                   outsideSearch>>

NextCorpus ==
    \/ collection_search_corpus
    \/ search_raises
    \/ skip_hit
    \/ append_hit
    \/ return_similar_docs

SpecCorpus == InitCorpus /\ [][NextCorpus]_vars

\* the documents that have a chunk in the collection
CorpusDocuments == {corpus[i] : i \in 1..Len(corpus)}

\* C33: a search that got hits returns fewer than limit results only if the
\* collection holds chunks of fewer than limit documents
C33_FewerOnlyIfFewerDocuments ==
    (sch = "return" /\ hits # <<>> /\ Len(similar_docs) < limit)
        => Cardinality(CorpusDocuments) < limit

(* ------------------------- the preview of a hit ------------------------- *)
\* the 200 of hit.entity.get("text_chunk", "")[:200]
PreviewLength == 200

\* longest chunk text a preview is built from
MaxChunkLen == 203

\* chunk texts of every length up to MaxChunkLen, of letters or of full stops
ChunkTexts == {[i \in 1..n |-> c] : n \in 0..MaxChunkLen, c \in {"a", "."}}

\* the listing of one hit with the chunk text text_chunk
InitPreview ==
    /\ InitPipeline
    /\ NoSplit
    /\ limit = 1
    /\ filter_metadata = Null
    /\ hits = <<>>
    /\ hit_index = 0
    /\ similar_docs = <<>>
    /\ seen_documents = {}
    /\ sch = "for"
    /\ corpus = <<>>
    /\ text_chunk \in ChunkTexts
    /\ text_preview = Null

\* text[:200] + "..."
preview(text) == SubSeq(text, 1, Min(Len(text), PreviewLength)) \o <<".", ".", ".">>

\* "text_preview": hit.entity.get("text_chunk", "")[:200] + "..."
build_text_preview ==
    /\ text_preview = Null
    /\ sch = "for"
    /\ text_preview' = Some(preview(text_chunk))
    /\ UNCHANGED <<text_chunk, limit, filter_metadata, hits, hit_index, similar_docs,
                   seen_documents, sch, corpus, pipelineVars, splitVars, deleted,
                   processing_stats, cleared>>

SpecPreview == InitPreview /\ [][build_text_preview]_vars

\* the sequence p is a prefix of the sequence s
IsPrefix(p, s) == Len(p) <= Len(s) /\ \A i \in 1..Len(p) : p[i] = s[i]

\* C34: the preview of a result is a prefix of the chunk text and at most
\* 200 characters long
C34_PreviewTruncatedPrefix ==
    text_preview # Null =>
        /\ Len(text_preview[1]) <= PreviewLength
        /\ IsPrefix(text_preview[1], text_chunk)

\* C35: _split_text returns the one chunk [text] for a text of at most
\* max_chunk_size characters, and the indexing of such a text inserts
\* exactly one record, with chunk index 0
C35_ShortTextIsOneChunk ==
    /\ []((spc = "return" /\ Len(txt) <= max_chunk_size) => chunks = <<txt>>)
    /\ [][\A t \in Tasks :
             (pc[t] = "embedding" /\ pc'[t] = "embedded" /\ Len(txt) <= max_chunk_size)
                 => \A i \in ChunkIndexes :
                       store'[tdoc[t]][i] = store[tdoc[t]][i] + (IF i = 0 THEN 1 ELSE 0)]_vars

\* a text of exactly max_chunk_size characters has been indexed
C35_Witness ==
    /\ Len(txt) = max_chunk_size
    /\ chunks = <<txt>>
    /\ \E t \in Tasks : pc[t] = "embedded" /\ tdoc[t] = "d1"
    /\ store["d1"][0] = 1
    /\ store["d1"][1] = 0

(* ---------------- the collection: index and delete by document ---------- *)
\* largest number of batches of one document the collection is filled with,
\* and of calls of delete_document_embeddings for one document
MaxBatches == 2
MaxDeletes == 2

\* what Milvus does with one collection.delete(expr)
DeleteOutcomes == {"deleted", "raise"}

\* create_document_embedding called for document d with a text: its records
\* are inserted
index_document(d, text) ==
    /\ store[d][0] < MaxBatches
    /\ store' = collection_insert(store, d, text)
    /\ UNCHANGED <<docs, db, file, queue, reqVars, runVars, dup, apiVars, splitVars,
                   searchVars, deleted, processing_stats, cleared>>

\* a delete that removes the records of every document
delete_all_embeddings(d, o) ==
    /\ deleted[d].calls < MaxDeletes
    /\ store' = IF o = "raise" THEN store ELSE [e \in Docs |-> [i \in ChunkIndexes |-> 0]]
    /\ deleted' = [deleted EXCEPT ![d] =
                      [calls |-> @.calls + 1,
                       status |-> IF o = "raise" THEN "error" ELSE "deleted"]]
    /\ UNCHANGED <<docs, db, file, queue, reqVars, runVars, dup, apiVars, splitVars,
                   searchVars, processing_stats, cleared>>

\* delete_document_embeddings(doc_id): collection.delete('document_id ==
\* "{doc_id}"') removes every record of the document and the call returns
\* status "deleted"; an exception is turned into the return of {"error": ...}
delete_document_embeddings(d, o) ==
    /\ deleted[d].calls < MaxDeletes
    /\ store' = IF o = "raise" THEN store ELSE [store EXCEPT ![d] = [i \in ChunkIndexes |-> 0]]
    /\ deleted' = [deleted EXCEPT ![d] =
                      [calls |-> @.calls + 1,
                       status |-> IF o = "raise" THEN "error" ELSE "deleted"]]
    /\ UNCHANGED <<docs, db, file, queue, reqVars, runVars, dup, apiVars, splitVars,
                   searchVars, processing_stats, cleared>>

NextStore ==
    \/ \E d \in Docs, text \in Texts : index_document(d, text)
    \/ \E d \in Docs, o \in DeleteOutcomes : delete_document_embeddings(d, o)

SpecStore == Init /\ [][NextStore]_vars

\* the collection holds no record of document d
NoChunks(st, d) == \A i \in ChunkIndexes : st[d][i] = 0

\* C36: a call of delete_document_embeddings for d that returns "deleted"
\* leaves no record of d; no call changes a record of another document; a
\* call for a document without records changes nothing; and a call returns
\* an error only when the collection raised
C36_DeleteEmbeddingsIdempotentScoped ==
    [][\A d \in Docs :
          deleted'[d].calls = deleted[d].calls + 1
              => /\ deleted'[d].status = "deleted" => NoChunks(store', d)
                 /\ \A e \in Docs \ {d} : store'[e] = store[e]
                 /\ NoChunks(store, d) => store' = store
                 /\ deleted'[d].status = "error" => store' = store]_vars

\* the second of two calls for a document, both returning "deleted", has
\* found no record of it, while the other document has kept its records
C36_Witness ==
    /\ deleted["d1"] = [calls |-> 2, status |-> "deleted"]
    /\ NoChunks(store, "d1")
    /\ store["d2"][0] = 2
    /\ store["d2"][1] = 1

(* ------------------------ CacheService on its own ----------------------- *)
\* number of calls of clear_document_cache
MaxClears == 2

\* the variables the calls of CacheService leave alone
outsideCache == <<docs, db, file, store, queue, reqVars, runVars, dup, getVars,
                  delete_response, splitVars, searchVars, deleted>>

\* set_document_status, set_document_results (and the entry "insights:{doc_id}",
\* which clear_document_cache knows of): setex of one key of one document
setex(d, key) ==
    /\ redis_up
    /\ cache[d][key] = Null
    /\ cache' = [cache EXCEPT ![d][key] = Some(db[d])]
    /\ UNCHANGED <<redis_up, processing_stats, cleared, outsideCache>>

\* set_processing_stats: setex of "processing_stats"
set_processing_stats ==
    /\ redis_up
    /\ processing_stats = Null
    /\ processing_stats' = Some("stats")
    /\ UNCHANGED <<cache, redis_up, cleared, outsideCache>>

\* clear_document_cache(doc_id) from call to return: with a client that is
\* None nothing is deleted, an exception of Redis ends the loop after k keys
clear_cache_call(d, k) ==
    /\ cleared.calls < MaxClears
    /\ k > 0 => redis_up
    /\ cache' = clear_document_cache(cache, d, k)
    /\ cleared' = [calls |-> cleared.calls + 1, doc |-> d, keys |-> k,
                   removed |-> Cardinality({key \in CacheKeys :
                                               cache[d][key] # Null /\ cache'[d][key] = Null})]
    /\ UNCHANGED <<redis_up, processing_stats, outsideCache>>

NextClear ==
    \/ \E d \in Docs, key \in CacheKeys : setex(d, key)
    \/ set_processing_stats
    \/ \E d \in Docs, k \in 0..Len(KeyOrder) : clear_cache_call(d, k)
    \/ redis_fails
    \/ redis_recovers

SpecClear == Init /\ [][NextClear]_vars

\* C37: a call of clear_document_cache for d changes no entry of another
\* document and not the entry processing_stats, adds no entry, and when
\* Redis answered every delete none of the three entries of d is left
C37_ClearRemovesOnlyKeysOfDocument ==
    [][cleared'.calls = cleared.calls + 1
          => /\ \A e \in Docs \ {cleared'.doc} : cache'[e] = cache[e]
             /\ processing_stats' = processing_stats
             /\ \A key \in CacheKeys :
                   cache'[cleared'.doc][key] \in {Null, cache[cleared'.doc][key]}
             /\ cleared'.keys = Len(KeyOrder)
                   => \A key \in CacheKeys : cache'[cleared'.doc][key] = Null]_vars

\* the entries of d1 have been cleared while every entry of d2 and the entry
\* processing_stats are in the cache
C37_Witness ==
    /\ cleared = [calls |-> 1, doc |-> "d1", keys |-> Len(KeyOrder),
                  removed |-> Cardinality(CacheKeys)]
    /\ \A key \in CacheKeys : cache["d1"][key] = Null /\ cache["d2"][key] # Null
    /\ processing_stats # Null

(***************************************************************************)
(* Reprocess and the cache entries of the document                         *)
(***************************************************************************)

\* a reprocess request of d has returned and no run has touched the record
\* since: the stored status is still the "uploaded" it committed
Reprocessed(d) ==
    /\ d \in docs
    /\ \E r \in Requests : rdoc[r] = d /\ rpc[r] = "done"
    /\ db[d].status = "uploaded"

\* C38: the step on which a reprocess of d returns leaves no status entry and
\* no results entry of d in the cache, and from then on, while the record
\* still holds the "uploaded" the reprocess committed, GET status answers
\* from the record and GET results does not answer with the results of the
\* previous run, also when a GET of d overlaps the reprocess
C38_ReprocessLeavesNoOldEntry ==
    /\ [][\A d \in docs : ReprocessStep(d) =>
            /\ cache'[d]["status"] = Null
            /\ cache'[d]["results"] = Null]_vars
    /\ [](\A d \in Docs : Reprocessed(d) =>
            /\ status_answer(d).body[1].status = "uploaded"
            /\ results_answer(d) # "results")


(***************************************************************************)
(* Isolation between documents                                             *)
(***************************************************************************)

\* runs, reprocess requests and embedding deletions of the two documents in
\* any order, d1 with the one-chunk file and d2 with the two-chunk file, and
\* the results of a completed document being cached
NextIsolation ==
    \/ \E r \in OcrResults : r.text = "tiny" /\ upload_document("d1", "other", r)
    \/ \E r \in OcrResults : r.text = "deal" /\ upload_document("d2", "other", r)
    \/ \E d \in Docs : reprocess_query(d)
    \/ \E r \in Requests : reprocess_document(r, Len(KeyOrder))
    \/ \E d \in Docs : process_document_background(d)
    \/ \E t \in Tasks : process_document(t)
    \/ \E t \in Tasks : extract_text_call(t)
    \/ \E t \in Tasks : extract_text_raises(t)
    \/ \E t \in Tasks : extract_text_returns(t)
    \/ \E t \in Tasks : analyze_document_call(t)
    \/ \E t \in Tasks, o \in {"json", "error"} : analyze_document_returns(t, o)
    \/ \E t \in Tasks, o \in EmbedOutcomes : create_document_embedding(t, o)
    \/ \E t \in Tasks, secs \in {1} : finalize(t, secs)
    \/ \E t \in Tasks : handle_exception(t)
    \/ \E d \in Docs : db[d].status = "completed" /\ setex(d, "results")
    \/ \E d \in Docs : deleted[d].calls = 0 /\ delete_document_embeddings(d, "deleted")

SpecIsolation == Init /\ [][NextIsolation]_vars

\* the step changes the record, the stored chunks or a cache entry of d
Touched(d) == db'[d] # db[d] \/ store'[d] # store[d] \/ cache'[d] # cache[d]

\* C39: a step of a run, of a reprocess request or of an embedding deletion
\* of one document changes neither the record nor the chunks nor the cache
\* entries of another document, and no step changes them for two documents
C39_DocumentsIsolated ==
    [][/\ \A t \in Tasks : pc'[t] # pc[t] => \A e \in Docs \ {tdoc'[t]} : ~Touched(e)
       /\ \A r \in Requests : rpc'[r] # rpc[r] => \A e \in Docs \ {rdoc'[r]} : ~Touched(e)
       /\ \A d \in Docs : deleted'[d] # deleted[d] => \A e \in Docs \ {d} : ~Touched(e)
       /\ \A d, e \in Docs : (Touched(d) /\ Touched(e)) => d = e]_vars

\* d1 has been processed, reprocessed and had its embeddings deleted while d2
\* keeps its completed record, its two chunks and its cached results
C39_Witness ==
    /\ \E r \in Requests : rdoc[r] = "d1" /\ rpc[r] = "done"
    /\ deleted["d1"].status = "deleted"
    /\ \A i \in ChunkIndexes : store["d1"][i] = 0
    /\ \E t \in Tasks : tdoc[t] = "d1" /\ pc[t] = "done"
    /\ \E t \in Tasks : tdoc[t] = "d2" /\ pc[t] = "done"
    /\ db["d2"].status = "completed"
    /\ store["d2"][0] = 1
    /\ store["d2"][1] = 1
    /\ cache["d2"]["results"] = Some(db["d2"])
====
